---- MODULE Spec2Model ----
(***************************************************************************)
(* Model of services/caption_video_one.py: the caption-to-subtitle         *)
(* conversion (convert_srt_to_one_word_ass, process_single_word_caption)   *)
(* and the job pipeline process_captioning.                                *)
(*                                                                         *)
(* Text is modelled line by line.  A line is a record                      *)
(*   [k : kind, a : Seq(Int), b : Seq(Int), w : Seq(Seq(STRING))]          *)
(* where w is the list of whitespace-separated words of the line (a word   *)
(* is a sequence of string pieces) and a, b hold the numeric components of *)
(* a timecode.  A string is a sequence of lines separated by newline       *)
(* tokens.  Times are integers in milliseconds; a quotient by the word     *)
(* count is kept exact as numerator/denominator.                           *)
(***************************************************************************)
EXTENDS Integers, Sequences, FiniteSets, TLC

\* ---------------------------------------------------------------- bounds
MaxBlocks == 2      \* cue blocks in an enumerated caption source
MaxBlank == 2       \* blank lines between two consecutive blocks

\* ------------------------------------------------------------ text model
NoWords == << >>
Line(k, a, b, w) == [k |-> k, a |-> a, b |-> b, w |-> w]
NL == Line("nl", << >>, << >>, NoWords)
EmptyLine == Line("empty", << >>, << >>, NoWords)
WsLine == Line("ws", << >>, << >>, NoWords)
IdxLine == Line("idx", << >>, << >>, << <<"1">> >>)
TcLine(a, b) == Line("tc", a, b, << <<"tc">>, <<"-->">>, <<"tc">> >>)
TxtLine(ws) == Line("txt", << >>, << >>, [i \in 1..Len(ws) |-> <<ws[i]>>])

RECURSIVE SumSeq(_)
SumSeq(s) == IF s = << >> THEN 0 ELSE Head(s) + SumSeq(Tail(s))

RECURSIVE Flatten(_)
Flatten(ss) == IF ss = << >> THEN << >> ELSE Head(ss) \o Flatten(Tail(ss))

Reverse(s) == [i \in 1..Len(s) |-> s[Len(s) + 1 - i]]

\* "\n".join(lines): the character stream of a text given by its lines; an
\* empty line contributes no characters between its two newlines.
RECURSIVE JoinLines(_)
JoinLines(ls) ==
    IF ls = << >> THEN << >>
    ELSE LET h == IF Head(ls).k = "empty" THEN << >> ELSE <<Head(ls)>>
         IN  IF Len(ls) = 1 THEN h ELSE h \o <<NL>> \o JoinLines(Tail(ls))

IsSpace(t) == t.k \in {"nl", "ws"}

\* str.strip(): leading and trailing whitespace (newlines, blank runs) go.
RECURSIVE LStrip(_)
LStrip(ts) == IF ts # << >> /\ IsSpace(Head(ts)) THEN LStrip(Tail(ts)) ELSE ts
Strip(ts) == Reverse(LStrip(Reverse(LStrip(ts))))

\* str.split('\n\n'): leftmost non-overlapping occurrences of two newlines.
RECURSIVE SplitNN(_, _, _)
SplitNN(ts, cur, acc) ==
    IF ts = << >> THEN Append(acc, cur)
    ELSE IF Len(ts) >= 2 /\ ts[1].k = "nl" /\ ts[2].k = "nl"
         THEN SplitNN(SubSeq(ts, 3, Len(ts)), << >>, Append(acc, cur))
         ELSE SplitNN(Tail(ts), Append(cur, Head(ts)), acc)
SplitBlocks(ts) == SplitNN(ts, << >>, << >>)

\* str.split('\n'): the lines of one block; nothing between two newlines
\* (or before a leading newline) is an empty line.
RECURSIVE SplitN(_, _, _)
SplitN(ts, cur, acc) ==
    IF ts = << >> THEN Append(acc, cur)
    ELSE IF Head(ts).k = "nl"
         THEN SplitN(Tail(ts), EmptyLine, Append(acc, cur))
         ELSE SplitN(Tail(ts), Head(ts), acc)
SplitLines(ts) == SplitN(ts, EmptyLine, << >>)

\* ' '.join(parts).strip().split(): the words of the joined lines.
WordsOf(parts) == Flatten([i \in 1..Len(parts) |-> parts[i].w])

\* --------------------------------------------------------- time handling
\* sum(float(x) * y for x, y in zip(comps[::-1], [1, 60, 3600])), in
\* milliseconds: the last component is the seconds field, held in ms; zip
\* stops at three components.
TimeMultipliers == <<1, 60000, 3600000>>
ParseTime(comps) ==
    LET rev == Reverse(comps)
        n == IF Len(rev) < 3 THEN Len(rev) ELSE 3
    IN  SumSeq([i \in 1..n |-> rev[i] * TimeMultipliers[i]])

\* f"{int(t/3600)}:{int((t%3600)/60):02d}:{t%60:05.2f}" for t = num/den ms,
\* as <<hours, minutes, centiseconds>>.  %05.2f rounds the seconds to the
\* nearest centisecond (so 59.996 gives 60.00).  The value is a binary
\* double: when the exact quotient lies half-way between two centiseconds
\* the double is a few ulps above or below the tie, differently for
\* different expressions computing the same real number, so both roundings
\* are outcomes of the formatting.
FormatTime(num, den) ==
    LET h == num \div (3600000 * den)
        m == (num % (3600000 * den)) \div (60000 * den)
        r == num % (60000 * den)
        lo == r \div (10 * den)
        rem == r % (10 * den)
    IN  IF 2 * rem < 10 * den THEN {<<h, m, lo>>}
        ELSE IF 2 * rem > 10 * den THEN {<<h, m, lo + 1>>}
        ELSE {<<h, m, lo>>, <<h, m, lo + 1>>}

\* The instant a rendered timecode denotes, in centiseconds.
Centis(tc) == tc[1] * 360000 + tc[2] * 6000 + tc[3]

\* ------------------------------------------------ word-highlight expander
\* other_words[i] = "{\c&H<highlight>&}word{\c&H<regular>&}"; " ".join(...)
HighlightText(words, i, highlight_color, regular_color) ==
    [j \in 1..Len(words) |->
        IF j = i
        THEN <<"{\\c&H", highlight_color, "&}">> \o words[j]
                 \o <<"{\\c&H", regular_color, "&}">>
        ELSE words[j]]

\* The least / greatest element of a non-empty set of rendered timecodes.
PickTime(S, up) ==
    CHOOSE x \in S : \A y \in S : IF up THEN Centis(y) <= Centis(x)
                                        ELSE Centis(x) <= Centis(y)

\* The rounding directions the doubles of one call can take at ties: one
\* pair <<for word_start, for word_end>> per word.  word_end of the first
\* word (start + 0*d + d) and word_start of the second (start + 1*d) are the
\* same double; later pairs (start + i*d + d against start + (i+1)*d) are
\* rounded independently.
RoundingChoices(n) ==
    { d \in [1..n -> BOOLEAN \X BOOLEAN] : n >= 2 => d[1][2] = d[2][1] }

\* One iteration of the loop of process_single_word_caption (0-based i0):
\* word_start = start + i*word_duration, word_end = word_start + word_duration
\* with word_duration = (end - start)/N, all over the denominator N.
DialogueLine(words, i0, start_time, end_time, highlight_color, regular_color, dir) ==
    LET n == Len(words)
        total_duration == end_time - start_time
        word_start == start_time * n + i0 * total_duration
        word_end == word_start + total_duration
    IN  Line("dlg",
             PickTime(FormatTime(word_start, n), dir[1]),
             PickTime(FormatTime(word_end, n), dir[2]),
             HighlightText(words, i0 + 1, highlight_color, regular_color))

\* process_single_word_caption: err is the exception raised ("none" when it
\* returns), outs the lists of Dialogue lines it can return.
process_single_word_caption(words, start_time, end_time, highlight_color, regular_color) ==
    IF Len(words) = 0
    THEN [err |-> "ZeroDivisionError", outs |-> {}]
    ELSE [err |-> "none",
          outs |-> { [i \in 1..Len(words) |->
                        DialogueLine(words, i - 1, start_time, end_time,
                                     highlight_color, regular_color, d[i])] :
                     d \in RoundingChoices(Len(words)) }]

\* ------------------------------------------------------------- options
\* dict.get(key, default)
Get(options, key, default) ==
    IF key \in DOMAIN options THEN options[key] ELSE default

\* convert_array_to_collection: {item["option"]: item["value"] for item in
\* options}; a later item with the same key wins.
convert_array_to_collection(items) ==
    LET keys == { items[i].option : i \in 1..Len(items) }
        last(key) == CHOOSE i \in 1..Len(items) :
                        /\ items[i].option = key
                        /\ \A m \in 1..Len(items) : items[m].option = key => m <= i
    IN  [key \in keys |-> items[last(key)].value]

\* ------------------------------------------------------ caption parser
Cue(start_time, end_time, words) ==
    [start |-> start_time, end |-> end_time, words |-> words]

\* The body of the for-loop of convert_srt_to_one_word_ass for one block:
\* skip (fewer than 3 lines), raise, or a cue with its Dialogue lines.
ConvertBlock(block, highlight_color, regular_color) ==
    LET parts == SplitLines(block)
    IN  IF Len(parts) < 3
        THEN [err |-> "none", cue |-> << >>, outs |-> { << >> }]
        ELSE IF parts[2].k # "tc"
        THEN \* float() of a non-number, or timecode[1] of a line without ' --> '
             [err |-> IF parts[2].k = "idx" THEN "IndexError" ELSE "ValueError",
              cue |-> << >>, outs |-> {}]
        ELSE LET start_time == ParseTime(parts[2].a)
                 end_time == ParseTime(parts[2].b)
                 words == WordsOf(SubSeq(parts, 3, Len(parts)))
                 r == process_single_word_caption(words, start_time, end_time,
                                                  highlight_color, regular_color)
             IN  [err |-> r.err,
                  cue |-> <<Cue(start_time, end_time, words)>>,
                  outs |-> r.outs]

RECURSIVE ConvertLoop(_, _, _, _, _)
ConvertLoop(blocks, cues, outs, highlight_color, regular_color) ==
    IF blocks = << >> THEN [err |-> "none", cues |-> cues, outs |-> outs]
    ELSE LET r == ConvertBlock(Head(blocks), highlight_color, regular_color)
         IN  IF r.err # "none"
             THEN [err |-> r.err, cues |-> cues \o r.cue, outs |-> {}]
             ELSE ConvertLoop(Tail(blocks), cues \o r.cue,
                              { o \o x : o \in outs, x \in r.outs },
                              highlight_color, regular_color)

\* convert_srt_to_one_word_ass(srt_content, options): err is the exception
\* raised ("none" when it returns), cues the cues parsed, in order, and outs
\* the texts ('\n'.join(ass_lines), as a list of lines) it can return.
convert_srt_to_one_word_ass(srt_content, options) ==
    ConvertLoop(SplitBlocks(Strip(JoinLines(srt_content))), << >>, { << >> },
                Get(options, "highlight_color", "FFFFFF"),
                Get(options, "regular_color", "AAAAAA"))

\* ------------------------------------------------ enumerated caption text
\* The blocks of a caption file: index, timecode and text lines; a block
\* without text; a block whose text line is blank; a two-line text.
BlockShapes ==
    { <<IdxLine, TcLine(<<0, 0, 0>>, <<0, 0, 2000>>), TxtLine(<<"hello", "world">>)>>,
      <<IdxLine, TcLine(<<0, 0, 5>>, <<0, 0, 125>>), TxtLine(<<"a", "b", "c">>)>>,
      <<IdxLine, TcLine(<<0, 0, 0>>, <<0, 0, 2000>>)>>,
      <<IdxLine, TcLine(<<0, 0, 0>>, <<0, 0, 2000>>), WsLine>>,
      <<IdxLine, TcLine(<<0, 1, 0>>, <<0, 1, 3000>>),
        TxtLine(<<"hello">>), TxtLine(<<"big", "world">>)>> }

Blanks(n) == [i \in 1..n |-> EmptyLine]

\* Caption sources of up to n blocks, consecutive blocks separated by
\* 1..MaxBlank blank lines.
RECURSIVE SourcesOf(_)
SourcesOf(n) ==
    IF n = 1 THEN BlockShapes
    ELSE SourcesOf(n - 1)
         \cup { s \o Blanks(g) \o b :
                  s \in SourcesOf(n - 1), g \in 1..MaxBlank, b \in BlockShapes }
Sources == SourcesOf(MaxBlocks)

\* ------------------------------------------------------------ job model
Jobs == {"j1", "j2"}
JobIds == { <<"a">>, <<"b">> }
CaptionTypes == {"srt", "vtt", "ass"}

STORAGE_PATH == <<"/tmp/">>
FONTS_DIR == <<"/usr/share/fonts/custom/">>
GCP_BUCKET_NAME == "bucket"

HeaderLine(text) == Line("hdr", << >>, << >>, << <<text>> >>)
BinaryFile(kind) == << Line(kind, << >>, << >>, NoWords) >>

\* A caption source that is a URL: one line whose text starts with "https".
CaptionUrl == << Line("url", << >>, << >>, << <<"https", "://host/captions.srt">> >>) >>

\* caption_srt.startswith("https")
StartsWithHttps(caption_srt) ==
    /\ caption_srt # << >>
    /\ caption_srt[1].w # << >>
    /\ caption_srt[1].w[1][1] = "https"

Block(tc, last) == <<IdxLine, TcLine(tc[1], tc[2])>> \o last

\* Caption texts a job is given inline or fetches: the two-word cue of 0s-2s,
\* the same followed by a block without text, and a cue whose text is blank
\* followed by the two-word cue.
JobCaptions ==
    { Block(<<<<0, 0, 0>>, <<0, 0, 2000>>>>, <<TxtLine(<<"hello", "world">>)>>),
      Block(<<<<0, 0, 0>>, <<0, 0, 2000>>>>, <<TxtLine(<<"hello", "world">>)>>)
          \o <<EmptyLine>> \o Block(<<<<0, 0, 2000>>, <<0, 0, 3000>>>>, << >>),
      Block(<<<<0, 0, 0>>, <<0, 0, 2000>>>>, <<WsLine>>)
          \o <<EmptyLine>>
          \o Block(<<<<0, 0, 2000>>, <<0, 0, 3000>>>>, <<TxtLine(<<"hello", "world">>)>>) }

Item(option, value) == [option |-> option, value |-> value]
OptionLists ==
    { << >>,
      << Item("one_word_mode", TRUE) >>,
      << Item("font_name", "NoSuchFont") >>,
      << Item("font_name", "NoSuchFont"), Item("one_word_mode", TRUE) >> }

Requests ==
    [ file_url : {"https://host/video.mp4"},
      caption_srt : JobCaptions \cup {CaptionUrl},
      caption_type : CaptionTypes,
      options : OptionLists,
      job_id : JobIds ]

\* The requests of the two-job runs: every pairing of job identifiers,
\* dialects, word-highlight flag and caption origin.
ConcurrentRequests ==
    { r \in Requests :
        /\ r.caption_srt \in
             { Block(<<<<0, 0, 0>>, <<0, 0, 2000>>>>, <<TxtLine(<<"hello", "world">>)>>),
               CaptionUrl }
        /\ r.options \in { << >>, << Item("one_word_mode", TRUE) >> } }

\* ------------------------------------------------------- path building
\* Faulty variant: the job identifier is left out of the subtitle path.
SubtitlePath_Shared(job_id, subtitle_extension) ==
    STORAGE_PATH \o <<"subtitle", subtitle_extension>>

\* os.path.join(STORAGE_PATH, f"{job_id}{subtitle_extension}")
SubtitlePath(job_id, subtitle_extension) ==
    STORAGE_PATH \o job_id \o <<subtitle_extension>>

\* os.path.join(STORAGE_PATH, f"{job_id}_captioned.mp4")
OutputPath(job_id) == STORAGE_PATH \o job_id \o <<"_captioned.mp4">>

\* download_file(file_url, STORAGE_PATH): the Fetcher stores the video under
\* a scratch path of its own choosing, scoped to the job that called it.
download_file(file_url, storage_path, j) == storage_path \o <<"download", j>>

\* upload_to_gcs(output_path, GCP_BUCKET_NAME): the artifact reference.
upload_to_gcs(output_path, bucket) == <<"gs://", bucket>> \o output_path

\* --------------------------------------------------------------- styling
\* generate_style_line(options): "Style: " and the 22 values joined by ','.
generate_style_line(options) ==
    Line("style", << >>, << >>,
         << <<"Default">>,
            <<Get(options, "font_name", "Arial")>>,
            <<Get(options, "font_size", "24")>>,
            <<Get(options, "primary_color", "&H00FFFFFF")>>,
            <<Get(options, "outline_color", "&H00000000")>>,
            <<Get(options, "back_color", "&H00000000")>>,
            <<Get(options, "bold", "0")>>,
            <<Get(options, "italic", "0")>>,
            <<Get(options, "underline", "0")>>,
            <<Get(options, "strikeout", "0")>>,
            <<"100">>, <<"100">>, <<"0">>, <<"0">>, <<"1">>,
            <<Get(options, "outline", "1")>>,
            <<Get(options, "shadow", "0")>>,
            <<Get(options, "alignment", "2")>>,
            <<Get(options, "margin_l", "10")>>,
            <<Get(options, "margin_r", "10")>>,
            <<Get(options, "margin_v", "10")>>,
            <<Get(options, "encoding", "1")>> >>)

\* Faulty variant: one-word mode switches the dialect and the path but
\* leaves subtitle_extension at the declared dialect.
OneWordOverride_KeepsExtension(one_word_mode, caption_type, job_id) ==
    IF one_word_mode /\ caption_type # "ass"
    THEN [caption_type |-> "ass", subtitle_extension |-> "." \o caption_type,
          srt_path |-> SubtitlePath(job_id, ".ass")]
    ELSE [caption_type |-> caption_type,
          subtitle_extension |-> "." \o caption_type,
          srt_path |-> SubtitlePath(job_id, "." \o caption_type)]

\* Lines 150-155: one-word mode forces the ASS dialect, extension and path.
OneWordOverride(one_word_mode, caption_type, job_id) ==
    IF one_word_mode /\ caption_type # "ass"
    THEN [caption_type |-> "ass", subtitle_extension |-> ".ass",
          srt_path |-> SubtitlePath(job_id, ".ass")]
    ELSE [caption_type |-> caption_type,
          subtitle_extension |-> "." \o caption_type,
          srt_path |-> SubtitlePath(job_id, "." \o caption_type)]

\* Faulty variant: a header is produced for every dialect.
CaptionStyle_Always(caption_type, options) ==
    << EmptyLine, HeaderLine("[Script Info]"), generate_style_line(options),
       HeaderLine("[Events]") >>

\* Lines 147, 157-168: the ASS header, or the empty string for other dialects.
CaptionStyle(caption_type, options) ==
    IF caption_type = "ass"
    THEN << EmptyLine,
            HeaderLine("[Script Info]"),
            HeaderLine("Title: Highlight Current Word"),
            HeaderLine("ScriptType: v4.00+"),
            HeaderLine("[V4+ Styles]"),
            HeaderLine("Format: Name, Fontname, Fontsize, PrimaryColour, OutlineColour, BackColour, Bold, Italic, Underline, StrikeOut, ScaleX, ScaleY, Spacing, Angle, BorderStyle, Outline, Shadow, Alignment, MarginL, MarginR, MarginV, Encoding"),
            generate_style_line(options),
            HeaderLine("[Events]"),
            HeaderLine("Format: Layer, Start, End, Style, Name, MarginL, MarginR, MarginV, Effect, Text") >>
    ELSE << >>

\* Lines 171-198: the text written to srt_path; err is the exception the
\* conversion raises before the file is opened.
SubtitleContents(remote, one_word_mode, caption_type, caption_style, caption, options) ==
    IF one_word_mode
    THEN LET r == convert_srt_to_one_word_ass(caption, options)
         IN  [err |-> r.err, outs |-> { caption_style \o o : o \in r.outs }]
    ELSE IF remote /\ caption_type \in {"srt", "vtt"}
    THEN [err |-> "none", outs |-> { caption }]
    ELSE [err |-> "none", outs |-> { caption_style \o caption }]

\* Lines 212-244: the filter argument.
SubtitleFilter(subtitle_extension, srt_path, font_name, options) ==
    IF subtitle_extension = ".ass"
    THEN [mode |-> "direct", path |-> srt_path, force_style |-> << >>]
    ELSE [mode |-> "force_style", path |-> srt_path,
          force_style |->
            << <<"FontName", font_name>>,
               <<"FontSize", Get(options, "font_size", "24")>>,
               <<"PrimaryColour", Get(options, "primary_color", "&H00FFFFFF")>>,
               <<"SecondaryColour", Get(options, "secondary_color", "&H00000000")>>,
               <<"OutlineColour", Get(options, "outline_color", "&H00000000")>>,
               <<"BackColour", Get(options, "back_color", "&H00000000")>>,
               <<"Bold", Get(options, "bold", "0")>>,
               <<"Italic", Get(options, "italic", "0")>>,
               <<"Underline", Get(options, "underline", "0")>>,
               <<"StrikeOut", Get(options, "strikeout", "0")>>,
               <<"Alignment", Get(options, "alignment", "2")>>,
               <<"MarginV", Get(options, "margin_v", "10")>>,
               <<"MarginL", Get(options, "margin_l", "10")>>,
               <<"MarginR", Get(options, "margin_r", "10")>>,
               <<"Outline", Get(options, "outline", "1")>>,
               <<"Shadow", Get(options, "shadow", "0")>>,
               <<"Blur", Get(options, "blur", "0")>>,
               <<"BorderStyle", Get(options, "border_style", "1")>>,
               <<"Encoding", Get(options, "encoding", "1")>>,
               <<"Spacing", Get(options, "spacing", "0")>>,
               <<"Angle", Get(options, "angle", "0")>>,
               <<"UpperCase", Get(options, "uppercase", "0")>> >>]

\* Lines 248-252: .run() is called without capture_stderr, so the encoder's
\* diagnostic stream is not piped and the ffmpeg.Error carries stderr = None.
RunCapturesStderr == FALSE
NoStderr == << >>
EncoderDiagnostic == <<"ffmpeg: error reading subtitle file">>
ErrorStderr(diagnostic) == IF RunCapturesStderr THEN diagnostic ELSE NoStderr

\* Lines 255-258: the message logged for an ffmpeg.Error.
ErrorMessage(stderr) ==
    IF stderr # NoStderr THEN stderr ELSE <<"Unknown FFmpeg error">>

\* Faulty variant: the handler logs the error and falls through.
AfterEncoderError_Swallowed == "Encoded"

\* Lines 254-260: the handler re-raises, so the job leaves the pipeline.
AfterEncoderError == "Failed"

\* Faulty variant: the subtitle file is not removed.
CleanupPaths_NoSubtitle(video_path, srt_path, output_path) ==
    <<video_path, output_path>>

\* Lines 265-267: the files removed, in order.
CleanupPaths(video_path, srt_path, output_path) ==
    <<video_path, srt_path, output_path>>

\* ---------------------------------------------------------------- state
VARIABLES
    FONT_PATHS,   \* the font table built when the module is imported
    job,          \* job -> the arguments of its process_captioning call
    pc,           \* job -> the pipeline state it has reached
    loc,          \* job -> the local variables of its call
    fs,           \* the files under STORAGE_PATH: path -> content
    log,          \* job -> the external actions it attempted, in order
    logged,       \* job -> the warnings and errors it logged
    conv          \* one call of convert_srt_to_one_word_ass: input and outcome

vars == <<FONT_PATHS, job, pc, loc, fs, log, logged, conv>>

NoError == [type |-> "none", stderr |-> NoStderr]
NoPath == << >>

InitialLocals ==
    [ video_path |-> NoPath, srt_path |-> NoPath, subtitle_extension |-> "",
      caption_type |-> "", options |-> << >>, one_word_mode |-> FALSE,
      caption_style |-> << >>, caption |-> << >>, output_path |-> NoPath,
      font_name |-> "", selected_font |-> << >>,
      subtitle_filter |-> [mode |-> "", path |-> NoPath, force_style |-> << >>],
      output_filename |-> << >>, removed |-> 0,
      error |-> NoError, result |-> << >> ]

ConvIdle == [st |-> "idle", src |-> << >>, err |-> "none", cues |-> << >>, ass |-> << >>]

\* Lines 19-24: one entry per .ttf file of the fonts directory.
FontTable == [name \in {"Arial", "Roboto"} |-> FONTS_DIR \o <<name, ".ttf">>]

InitCommon ==
    /\ FONT_PATHS = FontTable
    /\ loc = [j \in Jobs |-> InitialLocals]
    /\ fs = << >>
    /\ log = [j \in Jobs |-> << >>]
    /\ logged = [j \in Jobs |-> {}]

\* One job, any request.
Init ==
    /\ InitCommon
    /\ \E r \in Requests : job = [j \in Jobs |-> r]
    /\ pc = [j \in Jobs |-> IF j = "j1" THEN "Init" ELSE "Absent"]
    /\ conv = ConvIdle

\* Two jobs started side by side.
InitConcurrent ==
    /\ InitCommon
    /\ job \in [Jobs -> ConcurrentRequests]
    /\ pc = [j \in Jobs |-> "Init"]
    /\ conv = ConvIdle

\* A conversion of an enumerated caption source, no job running.
InitConvert ==
    /\ InitCommon
    /\ job = [j \in Jobs |-> CHOOSE r \in Requests : TRUE]
    /\ pc = [j \in Jobs |-> "Absent"]
    /\ \E src \in Sources : conv = [ConvIdle EXCEPT !.st = "ready", !.src = src]

\* ------------------------------------------------------------- file system
Exists(path) == path \in DOMAIN fs
WriteFile(path, content) ==
    [p \in DOMAIN fs \cup {path} |-> IF p = path THEN content ELSE fs[p]]
RemoveFile(path) == [p \in DOMAIN fs \ {path} |-> fs[p]]

Event(act, ok, path) == [act |-> act, ok |-> ok, path |-> path]

\* An exception leaves process_captioning: logged at line 271, re-raised.
Raise(j, type, stderr) ==
    /\ pc' = [pc EXCEPT ![j] = "Failed"]
    /\ loc' = [loc EXCEPT ![j].error = [type |-> type, stderr |-> stderr]]

\* -------------------------------------------------------------- actions
\* Lines 141-169: download the video, then fix dialect, paths and header.
DownloadVideo(j) ==
    /\ pc[j] = "Init"
    /\ LET video_path == download_file(job[j].file_url, STORAGE_PATH, j)
           options == convert_array_to_collection(job[j].options)
           one_word_mode == Get(options, "one_word_mode", FALSE)
           o == OneWordOverride(one_word_mode, job[j].caption_type, job[j].job_id)
       IN  \/ /\ fs' = WriteFile(video_path, BinaryFile("video"))
              /\ log' = [log EXCEPT ![j] = Append(@, Event("download", TRUE, video_path))]
              /\ loc' = [loc EXCEPT ![j].video_path = video_path,
                                    ![j].options = options,
                                    ![j].one_word_mode = one_word_mode,
                                    ![j].caption_type = o.caption_type,
                                    ![j].subtitle_extension = o.subtitle_extension,
                                    ![j].srt_path = o.srt_path,
                                    ![j].caption_style = CaptionStyle(o.caption_type, options)]
              /\ pc' = [pc EXCEPT ![j] = "VideoFetched"]
           \/ /\ log' = [log EXCEPT ![j] = Append(@, Event("download", FALSE, NoPath))]
              /\ Raise(j, "FetchFailure", NoStderr)
              /\ UNCHANGED fs
    /\ UNCHANGED <<FONT_PATHS, job, logged, conv>>

\* Lines 171-174 and 190: requests.get + raise_for_status for a URL, the
\* inline text otherwise.
MaterializeCaption(j) ==
    /\ pc[j] = "VideoFetched"
    /\ IF StartsWithHttps(job[j].caption_srt)
       THEN \/ \E body \in JobCaptions :
                 /\ loc' = [loc EXCEPT ![j].caption = body]
                 /\ log' = [log EXCEPT ![j] = Append(@, Event("caption_fetch", TRUE, NoPath))]
                 /\ pc' = [pc EXCEPT ![j] = "CaptionMaterialized"]
            \/ /\ log' = [log EXCEPT ![j] = Append(@, Event("caption_fetch", FALSE, NoPath))]
               /\ Raise(j, "FetchFailure", NoStderr)
       ELSE /\ loc' = [loc EXCEPT ![j].caption = job[j].caption_srt]
            /\ log' = [log EXCEPT ![j] = Append(@, Event("caption_inline", TRUE, NoPath))]
            /\ pc' = [pc EXCEPT ![j] = "CaptionMaterialized"]
    /\ UNCHANGED <<FONT_PATHS, job, fs, logged, conv>>

\* Lines 176-199: build the subtitle text and write it to srt_path.
WriteSubtitle(j) ==
    /\ pc[j] = "CaptionMaterialized"
    /\ LET l == loc[j]
           c == SubtitleContents(StartsWithHttps(job[j].caption_srt), l.one_word_mode,
                                 l.caption_type, l.caption_style, l.caption, l.options)
       IN  IF c.err # "none"
           THEN /\ Raise(j, c.err, NoStderr)
                /\ UNCHANGED <<fs, log>>
           ELSE \/ \E content \in c.outs :
                     /\ fs' = WriteFile(l.srt_path, content)
                     /\ log' = [log EXCEPT ![j] = Append(@, Event("subtitle_write", TRUE, l.srt_path))]
                     /\ pc' = [pc EXCEPT ![j] = "SubtitleWritten"]
                     /\ UNCHANGED loc
                \/ /\ log' = [log EXCEPT ![j] = Append(@, Event("subtitle_write", FALSE, l.srt_path))]
                   /\ Raise(j, "OSError", NoStderr)
                   /\ UNCHANGED fs
    /\ UNCHANGED <<FONT_PATHS, job, logged, conv>>

\* Lines 201-244: output path, font lookup, filter argument.
BuildFilter(j) ==
    /\ pc[j] = "SubtitleWritten"
    /\ LET l == loc[j]
           font_name == Get(l.options, "font_name", "Arial")
           found == font_name \in DOMAIN FONT_PATHS
           selected_font == IF found THEN FONT_PATHS[font_name]
                            ELSE Get(FONT_PATHS, "Arial", << >>)
       IN  /\ loc' = [loc EXCEPT ![j].output_path = OutputPath(job[j].job_id),
                                 ![j].font_name = font_name,
                                 ![j].selected_font = selected_font,
                                 ![j].subtitle_filter =
                                     SubtitleFilter(l.subtitle_extension, l.srt_path,
                                                    font_name, l.options)]
           /\ logged' = [logged EXCEPT ![j] =
                           IF found THEN @
                           ELSE @ \cup {<<"warning", "font not found, using default font Arial">>}]
    /\ pc' = [pc EXCEPT ![j] = "FilterBuilt"]
    /\ UNCHANGED <<FONT_PATHS, job, fs, log, conv>>

\* Lines 246-260: run the encoder on video_path with the filter; it fails
\* when an input file is missing and may fail on its own.
RunEncoder(j) ==
    /\ pc[j] = "FilterBuilt"
    /\ LET l == loc[j]
       IN  \/ /\ Exists(l.video_path) /\ Exists(l.subtitle_filter.path)
              /\ fs' = WriteFile(l.output_path, BinaryFile("encoded"))
              /\ log' = [log EXCEPT ![j] = Append(@, Event("encode", TRUE, l.output_path))]
              /\ pc' = [pc EXCEPT ![j] = "Encoded"]
              /\ UNCHANGED <<loc, logged>>
           \/ /\ log' = [log EXCEPT ![j] = Append(@, Event("encode", FALSE, NoPath))]
              /\ LET stderr == ErrorStderr(EncoderDiagnostic)
                 IN  /\ logged' = [logged EXCEPT ![j] = @ \cup {<<"error", ErrorMessage(stderr)>>}]
                     /\ pc' = [pc EXCEPT ![j] = AfterEncoderError]
                     /\ loc' = [loc EXCEPT ![j].error = [type |-> "ffmpeg.Error", stderr |-> stderr]]
              /\ UNCHANGED fs
    /\ UNCHANGED <<FONT_PATHS, job, conv>>

\* Line 262: upload the encoded output.
Upload(j) ==
    /\ pc[j] = "Encoded"
    /\ LET l == loc[j]
       IN  \/ /\ Exists(l.output_path)
              /\ loc' = [loc EXCEPT ![j].output_filename =
                                        upload_to_gcs(l.output_path, GCP_BUCKET_NAME)]
              /\ log' = [log EXCEPT ![j] = Append(@, Event("upload", TRUE, NoPath))]
              /\ pc' = [pc EXCEPT ![j] = "Published"]
           \/ /\ log' = [log EXCEPT ![j] = Append(@, Event("upload", FALSE, NoPath))]
              /\ Raise(j, "UploadFailure", NoStderr)
    /\ UNCHANGED <<FONT_PATHS, job, fs, logged, conv>>

\* Lines 265-269: one os.remove per step; after the last one the artifact
\* reference is returned.
RemoveScratch(j) ==
    /\ pc[j] = "Published"
    /\ LET l == loc[j]
           paths == CleanupPaths(l.video_path, l.srt_path, l.output_path)
           path == paths[l.removed + 1]
       IN  IF Exists(path)
           THEN /\ fs' = RemoveFile(path)
                /\ log' = [log EXCEPT ![j] = Append(@, Event("delete", TRUE, path))]
                /\ IF l.removed + 1 = Len(paths)
                   THEN /\ loc' = [loc EXCEPT ![j].removed = @ + 1,
                                              ![j].result = l.output_filename]
                        /\ pc' = [pc EXCEPT ![j] = "CleanedUp"]
                   ELSE /\ loc' = [loc EXCEPT ![j].removed = @ + 1]
                        /\ UNCHANGED pc
           ELSE /\ log' = [log EXCEPT ![j] = Append(@, Event("delete", FALSE, path))]
                /\ Raise(j, "FileNotFoundError", NoStderr)
                /\ UNCHANGED fs
    /\ UNCHANGED <<FONT_PATHS, job, logged, conv>>

\* One call of convert_srt_to_one_word_ass on the enumerated source.
Convert ==
    /\ conv.st = "ready"
    /\ LET r == convert_srt_to_one_word_ass(conv.src, << >>)
       IN  IF r.err # "none"
           THEN conv' = [conv EXCEPT !.st = "raised", !.err = r.err, !.cues = r.cues]
           ELSE \E o \in r.outs :
                  conv' = [conv EXCEPT !.st = "returned", !.cues = r.cues, !.ass = o]
    /\ UNCHANGED <<FONT_PATHS, job, pc, loc, fs, log, logged>>

Next ==
    \E j \in Jobs :
        \/ DownloadVideo(j)
        \/ MaterializeCaption(j)
        \/ WriteSubtitle(j)
        \/ BuildFilter(j)
        \/ RunEncoder(j)
        \/ Upload(j)
        \/ RemoveScratch(j)

NextConvert == Convert

Spec == Init /\ [][Next]_vars
SpecConcurrent == InitConcurrent /\ [][Next]_vars
SpecConvert == InitConvert /\ [][NextConvert]_vars

\* ------------------------------------------------------------ properties
Acts(j) == [i \in 1..Len(log[j]) |-> log[j][i].act]
Attempted(j, act) == \E i \in 1..Len(log[j]) : log[j][i].act = act
IsPrefix(s, t) == Len(s) <= Len(t) /\ SubSeq(t, 1, Len(s)) = s
Remote(j) == StartsWithHttps(job[j].caption_srt)

\* The pipeline order of a job's external actions.
PipelineOrder(j) ==
    << "download", IF Remote(j) THEN "caption_fetch" ELSE "caption_inline",
       "subtitle_write", "encode", "upload", "delete", "delete", "delete" >>

RECURSIVE TotalWords(_)
TotalWords(cues) ==
    IF cues = << >> THEN 0 ELSE Len(Head(cues).words) + TotalWords(Tail(cues))

\* C1: a job's external actions form a prefix of the pipeline order (each at
\* most once, none out of order), only the last attempted one can have
\* failed, a failed action leaves the job Failed with no result, and a
\* result is returned only after all deletions succeeded.
C1_PipelineOrder ==
    \A j \in Jobs :
        /\ IsPrefix(Acts(j), PipelineOrder(j))
        /\ \A i \in 1..Len(log[j]) : ~log[j][i].ok => i = Len(log[j]) /\ pc[j] = "Failed"
        /\ pc[j] = "Failed" => loc[j].result = << >>
        /\ loc[j].result # << >> =>
              /\ Acts(j) = PipelineOrder(j)
              /\ \A i \in 1..Len(log[j]) : log[j][i].ok
              /\ loc[j].result = loc[j].output_filename

C1_Witness ==
    \E j \in Jobs : pc[j] = "CleanedUp" /\ loc[j].result # << >> /\ Remote(j)

EncoderFailed(j) == log[j] # << >> /\ log[j][Len(log[j])] = Event("encode", FALSE, NoPath)

\* C2: when the encoder fails the job is Failed, the error handed to the
\* caller carries the encoder's diagnostic output, and neither upload nor
\* deletion is attempted.
C2_EncoderFailure ==
    \A j \in Jobs :
        EncoderFailed(j) =>
            /\ pc[j] = "Failed"
            /\ loc[j].error.stderr = EncoderDiagnostic
            /\ ~Attempted(j, "upload") /\ ~Attempted(j, "delete")

Created(j) ==
    { log[j][i].path : i \in { n \in 1..Len(log[j]) :
          log[j][n].ok /\ log[j][n].act \in {"download", "subtitle_write", "encode"} } }
Deleted(j) ==
    { log[j][i].path : i \in { n \in 1..Len(log[j]) :
          log[j][n].ok /\ log[j][n].act = "delete" } }

\* C3: when the artifact reference is returned, the three scratch files the
\* job created (video, the subtitle file it wrote, encoded output) have all
\* been deleted and none of them exists.
C3_ScratchDeleted ==
    \A j \in Jobs :
        loc[j].result # << >> =>
            /\ Cardinality(Created(j)) = 3
            /\ Created(j) = Deleted(j)
            /\ \A p \in Created(j) : ~Exists(p)

C3_Witness ==
    \E j \in Jobs :
        /\ loc[j].result # << >>
        /\ loc[j].one_word_mode /\ job[j].caption_type = "srt"

SubtitleStage(j) == pc[j] \in {"SubtitleWritten", "FilterBuilt", "Encoded", "Published", "CleanedUp"}
FilterStage(j) == pc[j] \in {"FilterBuilt", "Encoded", "Published", "CleanedUp"}

\* C4: in word-highlight mode, whatever the declared dialect, the subtitle
\* file is the .ass scratch path, it holds the style header followed by one
\* Dialogue line per word of the caption's cues, and the filter argument
\* names that path directly, without a force_style clause.
C4_WordHighlight ==
    \A j \in Jobs :
        (SubtitleStage(j) /\ loc[j].one_word_mode) =>
            LET path == STORAGE_PATH \o job[j].job_id \o <<".ass">>
                header == CaptionStyle("ass", loc[j].options)
            IN  /\ loc[j].srt_path = path
                /\ Attempted(j, "subtitle_write")
                /\ Exists(path) =>
                     LET c == fs[path]
                     IN  /\ IsPrefix(header, c)
                         /\ header[7].k = "style"
                         /\ \A i \in (Len(header) + 1)..Len(c) : c[i].k = "dlg"
                         /\ Len(c) - Len(header) =
                              TotalWords(convert_srt_to_one_word_ass(loc[j].caption, << >>).cues)
                /\ FilterStage(j) =>
                     /\ loc[j].subtitle_filter.mode = "direct"
                     /\ loc[j].subtitle_filter.path = path
                     /\ loc[j].subtitle_filter.force_style = << >>

C4_Witness ==
    \E j \in Jobs :
        /\ pc[j] = "FilterBuilt" /\ loc[j].one_word_mode
        /\ job[j].caption_type = "vtt"
        /\ Exists(loc[j].srt_path) /\ Len(fs[loc[j].srt_path]) = 11

\* C5: for srt or vtt without word-highlight, the subtitle file holds the
\* caption source unchanged (inline text, or the body fetched from the
\* URL), with no header.
C5_PassThrough ==
    \A j \in Jobs :
        (SubtitleStage(j) /\ ~loc[j].one_word_mode
           /\ job[j].caption_type \in {"srt", "vtt"} /\ Exists(loc[j].srt_path)) =>
            /\ loc[j].srt_path = STORAGE_PATH \o job[j].job_id \o <<"." \o job[j].caption_type>>
            /\ fs[loc[j].srt_path] = IF Remote(j) THEN loc[j].caption ELSE job[j].caption_srt
            /\ fs[loc[j].srt_path][1].k = "idx"

C5_Witness ==
    \E j \in Jobs :
        /\ pc[j] = "SubtitleWritten" /\ ~loc[j].one_word_mode
        /\ job[j].caption_type = "srt" /\ ~Remote(j)
        /\ Exists(loc[j].srt_path)

CueWindows(k) ==
    LET off == TotalWords(SubSeq(conv.cues, 1, k - 1))
    IN  [i \in 1..Len(conv.cues[k].words) |-> conv.ass[off + i]]

\* C6: a conversion that returns has emitted one Dialogue line per word of
\* its cues, and for every cue the rendered windows tile the cue: the first
\* starts at the cue's start, each window ends where the next starts, and
\* the last ends at the cue's end.
C6_Tiling ==
    conv.st = "returned" =>
        /\ Len(conv.ass) = TotalWords(conv.cues)
        /\ \A k \in 1..Len(conv.cues) :
             LET w == CueWindows(k)
                 n == Len(w)
             IN  /\ w[1].a \in FormatTime(conv.cues[k].start, 1)
                 /\ w[n].b \in FormatTime(conv.cues[k].end, 1)
                 /\ \A i \in 1..(n - 1) : Centis(w[i].b) = Centis(w[i + 1].a)

HasEmptyCue(caption) ==
    LET cues == convert_srt_to_one_word_ass(caption, << >>).cues
    IN  \E k \in 1..Len(cues) : cues[k].words = << >>

\* C7: in word-highlight mode a cue without words makes the job fail with
\* the EmptyCue error, before any subtitle file is written or the encoder
\* is invoked.
C7_EmptyCue ==
    \A j \in Jobs :
        (pc[j] \notin {"Absent", "Init", "VideoFetched", "CaptionMaterialized"}
           /\ loc[j].one_word_mode /\ HasEmptyCue(loc[j].caption)) =>
            /\ pc[j] = "Failed"
            /\ loc[j].error.type = "EmptyCue"
            /\ ~Attempted(j, "subtitle_write") /\ ~Attempted(j, "encode")

\* The blank-line-separated blocks of a list of lines.
RECURSIVE BlocksOf(_, _, _)
BlocksOf(ls, cur, acc) ==
    IF ls = << >> THEN (IF cur = << >> THEN acc ELSE Append(acc, cur))
    ELSE IF Head(ls).k = "empty"
         THEN BlocksOf(Tail(ls), << >>, IF cur = << >> THEN acc ELSE Append(acc, cur))
         ELSE BlocksOf(Tail(ls), Append(cur, Head(ls)), acc)

LongBlocks(src) ==
    LET bs == BlocksOf(src, << >>, << >>)
    IN  SelectSeq(bs, LAMBDA b : Len(b) >= 3)

\* C8: for a source whose text lines all carry words, the conversion raises
\* no error and has parsed exactly one cue, in source order, for every
\* blank-line-separated block of at least 3 lines, skipping the others.
C8_ShortBlocksSkipped ==
    (conv.st \in {"returned", "raised"}
       /\ \A i \in 1..Len(conv.src) : conv.src[i].k # "ws") =>
        LET long == LongBlocks(conv.src)
        IN  /\ conv.st = "returned"
            /\ Len(conv.cues) = Len(long)
            /\ \A k \in 1..Len(long) :
                 /\ conv.cues[k].start = ParseTime(long[k][2].a)
                 /\ conv.cues[k].words = WordsOf(SubSeq(long[k], 3, Len(long[k])))

\* C9: when the requested font is not in the font table, the job goes on, a
\* warning is logged, and the font named in the filter argument is the
\* default font Arial.
C9_DefaultFont ==
    \A j \in Jobs :
        (FilterStage(j) /\ Get(loc[j].options, "font_name", "Arial") \notin DOMAIN FONT_PATHS
           /\ loc[j].subtitle_filter.mode = "force_style") =>
            /\ \E m \in logged[j] : m[1] = "warning"
            /\ loc[j].subtitle_filter.force_style[1] = <<"FontName", "Arial">>

ScratchPaths(j) ==
    ({loc[j].video_path, loc[j].srt_path, loc[j].output_path, loc[j].subtitle_filter.path}
        \cup { log[j][i].path : i \in 1..Len(log[j]) }) \ {NoPath}

\* C10: two jobs with distinct job identifiers never share a scratch path,
\* so neither finds a file it needs missing, and the font table is never
\* modified.
C10_DisjointScratch ==
    /\ FONT_PATHS = FontTable
    /\ \A j, k \in Jobs :
         (j # k /\ job[j].job_id # job[k].job_id) =>
            /\ ScratchPaths(j) \cap ScratchPaths(k) = {}
            /\ loc[j].error.type # "FileNotFoundError"
            /\ pc[j] \in {"SubtitleWritten", "FilterBuilt"} =>
                  Exists(loc[j].video_path) /\ Exists(loc[j].srt_path)
            /\ pc[j] = "Encoded" => Exists(loc[j].output_path)

C10_Witness ==
    /\ job["j1"].job_id # job["j2"].job_id
    /\ job["j1"].caption_type = job["j2"].caption_type
    /\ pc["j1"] = "Published" /\ loc["j1"].removed = 1
    /\ pc["j2"] = "FilterBuilt"
====
